---- MODULE Spec2Model ----
(***************************************************************************)
(* Model of duzeszanse.py: the record loop over `signatures` and           *)
(* verify_signature.                                                       *)
(*                                                                         *)
(* Scaling.  The program works on secp256k1 (256-bit).  The model keeps    *)
(* the curve equation y^2 = x^3 + 7 and replaces the field by F_13, whose  *)
(* group of points has prime order 7, so that every r, s, z and n fits in  *)
(* one hex digit and TLC can enumerate them.  Hex strings are sequences of *)
(* one-character strings.                                                  *)
(***************************************************************************)
EXTENDS Integers, Sequences, FiniteSets, TLC

\* Number of records in the `signatures` list (4 in the source, lines 33-66).
MaxRecords == 2

-----------------------------------------------------------------------------
(* The curve: SECP256k1, scaled down.                                      *)

\* Field prime of the curve (SECP256k1.curve, line 15).
curve_p == 13
\* Coefficient b of y^2 = x^3 + b (a = 0), as for secp256k1.
curve_b == 7
\* order = curve.order(), line 16: the order of the group of points.
order == 7

INFINITY == [kind |-> "inf"]
Point(px, py) == [kind |-> "point", x |-> px, y |-> py]
\* The generator of the curve.
G == Point(7, 5)

IsPoint(Q) == Q.kind = "point"

OnCurve(Q) == IsPoint(Q) /\ (Q.y * Q.y - Q.x * Q.x * Q.x - curve_b) % curve_p = 0

CurvePoints == {Q \in {Point(px, py) : px \in 0..(curve_p - 1), py \in 0..(curve_p - 1)} : OnCurve(Q)}

\* Modular inverse of a modulo the prime m (a not a multiple of m).
ModInv(a, m) == CHOOSE w \in 1..(m - 1) : (a * w) % m = 1

PointAdd(A, B) ==
    IF A = INFINITY THEN B
    ELSE IF B = INFINITY THEN A
    ELSE IF A.x = B.x /\ (A.y + B.y) % curve_p = 0 THEN INFINITY
    ELSE LET l == IF A = B
                  THEN (3 * A.x * A.x * ModInv((2 * A.y) % curve_p, curve_p)) % curve_p
                  ELSE ((B.y - A.y) * ModInv((B.x - A.x) % curve_p, curve_p)) % curve_p
             x3 == (l * l - A.x - B.x) % curve_p
         IN  Point(x3, (l * (A.x - x3) - A.y) % curve_p)

RECURSIVE PointMul(_, _)
PointMul(k, A) == IF k = 0 THEN INFINITY ELSE PointAdd(A, PointMul(k - 1, A))

\* Standard ECDSA verification of (r, s) over digest hash against the point Q.
verifies(Q, hash, sig) ==
    LET r0 == sig[1]
        s0 == sig[2]
    IN  /\ 0 < r0 /\ r0 < order
        /\ 0 < s0 /\ s0 < order
        /\ LET w  == ModInv(s0, order)
               u1 == (hash * w) % order
               u2 == (r0 * w) % order
               P  == PointAdd(PointMul(u1, G), PointMul(u2, Q))
           IN  P # INFINITY /\ P.x % order = r0

\* Reference signer: the signature of digest hash under private key d and nonce k.
Sign(d, k, hash) ==
    LET R  == PointMul(k, G)
        r0 == R.x % order
    IN  <<r0, (ModInv(k, order) * (hash + r0 * d)) % order>>

\* isLowS(s, n): the canonical-form rule.
isLowS_strict(s0, n0) == s0 < n0 \div 2
isLowS(s0, n0) == s0 <= n0 \div 2


-----------------------------------------------------------------------------
(* Conversions (lines 9, 23, 71-74).                                       *)

HexChars == <<"0", "1", "2", "3", "4", "5", "6", "7", "8", "9", "a", "b", "c", "d", "e", "f">>

IsHex(c) == \E i \in 1..Len(HexChars) : HexChars[i] = c

HexVal(c) == (CHOOSE i \in 1..Len(HexChars) : HexChars[i] = c) - 1

\* The number written by a sequence of hex digits, most significant first.
RECURSIVE HexNum(_)
HexNum(ds) == IF ds = <<>> THEN 0
              ELSE HexNum(SubSeq(ds, 1, Len(ds) - 1)) * Len(HexChars) + HexVal(ds[Len(ds)])

\* A conversion either yields a value or raises ValueError.
Ok(v) == [ok |-> TRUE, val |-> v]
ValueError == [ok |-> FALSE, val |-> 0]

\* int(str, 16), lines 71-74: an optional "0x" prefix, then one or more hex digits.
int_16(str) ==
    LET body == IF Len(str) >= 2 /\ str[1] = "0" /\ str[2] = "x"
                THEN SubSeq(str, 3, Len(str))
                ELSE str
    IN  IF body # <<>> /\ \A i \in 1..Len(body) : IsHex(body[i])
        THEN Ok(HexNum(body))
        ELSE ValueError

\* bytes.fromhex(txid), lines 9 and 23: pairs of hex digits, one byte per pair.
fromhex(str) ==
    IF Len(str) % 2 = 0 /\ \A i \in 1..Len(str) : IsHex(str[i])
    THEN Ok([i \in 1..(Len(str) \div 2) |-> HexNum(SubSeq(str, 2 * i - 1, 2 * i))])
    ELSE ValueError

\* util.string_to_number(bytes), line 23: the big-endian integer of a byte string.
RECURSIVE string_to_number(_)
string_to_number(bs) ==
    IF bs = <<>> THEN 0
    ELSE string_to_number(SubSeq(bs, 1, Len(bs) - 1)) * (Len(HexChars) * Len(HexChars))
         + bs[Len(bs)]

\* The integer that line 23 passes as the public key.
IntKey(k) == [kind |-> "int", val |-> k]

-----------------------------------------------------------------------------
(* verify_signature (lines 12-30).                                         *)

\* What the imported verify (line 3) can do when line 24 calls it, as far as
\* lines 24-30 tell the cases apart: return a true or a false value, raise
\* BadSignatureError, raise any other exception.
VerifyOutcomes == {"True", "False", "BadSignatureError", "Exception"}

\* verify((r, s), z, pubkey), line 24.  Against a point of the curve the
\* outcome is that of the verification equation.  Line 23 passes an integer,
\* which is no point: the function is not part of the repository, and every
\* outcome the call site handles is possible.
verify(sig, hash, pubkey) ==
    IF IsPoint(pubkey)
    THEN {IF verifies(pubkey, hash, sig) THEN "True" ELSE "False"}
    ELSE VerifyOutcomes

\* The message of line 29.
ErrLine == "Blad weryfikacji podpisu"

\* One run of verify_signature: the value returned, the lines printed, the
\* statements passed through, and the outcome of the call of line 24.
Execution(ret, out, steps, lib) == [ret |-> ret, out |-> out, steps |-> steps, lib |-> lib]

\* Line 19: the range check, in the scope of the parameters of line 12.
RangeOk_inclusive(txid_, r_, s_, z_, n_) == 0 < r_ /\ r_ <= order /\ 0 < s_ /\ s_ <= order
RangeOk_z(txid_, r_, s_, z_, n_) == 0 < r_ /\ r_ < order /\ 0 < s_ /\ s_ < order /\ z_ < order
RangeOk_n(txid_, r_, s_, z_, n_) == 0 < r_ /\ r_ < n_ /\ 0 < s_ /\ s_ < n_
RangeOk(txid_, r_, s_, z_, n_) == 0 < r_ /\ r_ < order /\ 0 < s_ /\ s_ < order

\* Lines 26-27: except BadSignatureError.
OnBadSignature_prints(steps) == Execution(FALSE, <<ErrLine>>, steps \o <<"except BadSignatureError">>, "BadSignatureError")
OnBadSignature(steps) == Execution(FALSE, <<>>, steps \o <<"except BadSignatureError">>, "BadSignatureError")

\* Lines 28-30: except Exception, reached from line 23 (lib = "none") or line 24.
OnException(steps, lib) == Execution(FALSE, <<ErrLine>>, steps \o <<"except Exception">>, lib)

\* Line 24: return verify(...), or the handler of what it raises.
OnVerify(steps, o) ==
    CASE o = "True" -> Execution(TRUE, <<>>, steps, o)
      [] o = "False" -> Execution(FALSE, <<>>, steps, o)
      [] o = "BadSignatureError" -> OnBadSignature(steps)
      [] o = "Exception" -> OnException(steps, o)

\* The runs of verify_signature(txid, r, s, z, n).
verify_signature(txid_, r_, s_, z_, n_) ==
    IF ~RangeOk(txid_, r_, s_, z_, n_)
    THEN {Execution(FALSE, <<>>, <<"range check">>, "none")}
    ELSE LET bytes == fromhex(txid_)
         IN  IF ~bytes.ok
             THEN {OnException(<<"range check", "fromhex">>, "none")}
             ELSE LET pubkey == IntKey(string_to_number(bytes.val))
                  IN  {OnVerify(<<"range check", "fromhex", "verify">>, o) :
                          o \in verify(<<r_, s_>>, z_, pubkey)}

-----------------------------------------------------------------------------
(* The records (lines 33-66) and the loop over them (lines 69-90).         *)

Hex(d) == <<"0", "x", d>>

\* Identifiers: one byte, two bytes, odd length, a character that is no hex digit.
TXIDs == {<<"3", "a">>, <<"0", "1", "0", "3">>, <<"3">>, <<"g", "3">>}
\* r: 0, two values in range, the order, above the order, malformed.
RStrs == {Hex("0"), Hex("1"), <<"4">>, Hex("7"), Hex("9"), Hex("g")}
\* s: 0, either side of order / 2, the order, a prefix with no digit.
SStrs == {Hex("0"), Hex("3"), Hex("4"), Hex("7"), <<"0", "x">>}
\* z: below the order, above it (9 = 2 mod 7), malformed.
ZStrs == {Hex("2"), <<"9">>, Hex("z")}
\* n: the order of the curve, a smaller and a larger (even) value, malformed.
NStrs == {Hex("7"), Hex("3"), Hex("8"), <<"7", "x">>}

\* The records a `signatures` list may hold.
Records == [TXID : TXIDs, r : RStrs, s : SStrs, z : ZStrs, LowS : BOOLEAN, n : NStrs]

VARIABLES
    pc,               \* the statement the program is at
    total,            \* len(signatures)
    done,             \* records the for loop has taken from the list
    signature,        \* the loop variable of line 69
    txid, r, s, z, n, \* the names bound by lines 70-74
    valid_signature,  \* the name bound by line 84
    call,             \* the run of verify_signature made by line 84
    stdout            \* the lines printed so far

vars == <<pc, total, done, signature, txid, r, s, z, n, valid_signature, call, stdout>>

\* A name not bound yet; no statement reads it before it is bound.
NoRecord == [TXID |-> <<>>, r |-> <<>>, s |-> <<>>, z |-> <<>>, LowS |-> FALSE, n |-> <<>>]
NoCall == Execution(FALSE, <<>>, <<>>, "none")

\* The lines printed by the loop.
LowSLine(flag) == IF flag THEN "Low-S? = True" ELSE "Low-S? = False"
ValidLine == "Podpis jest poprawny!"
InvalidLine == "Podpis jest niepoprawny!"
SepLine == "----"

Init ==
    /\ pc = "for"
    /\ total \in 0..MaxRecords
    /\ done = 0
    /\ signature = NoRecord
    /\ txid = <<>> /\ r = 0 /\ s = 0 /\ z = 0 /\ n = 0
    /\ valid_signature = FALSE
    /\ call = NoCall
    /\ stdout = <<>>

\* Line 69: the loop takes the next record of the list.
ForNext ==
    /\ pc = "for" /\ done < total
    /\ \E rec \in Records : signature' = rec
    /\ done' = done + 1
    /\ pc' = "convert"
    /\ UNCHANGED <<total, txid, r, s, z, n, valid_signature, call, stdout>>

\* Line 69, list exhausted: the program ends.
ForEnd ==
    /\ pc = "for" /\ done = total
    /\ pc' = "exit"
    /\ UNCHANGED <<total, done, signature, txid, r, s, z, n, valid_signature, call, stdout>>

\* Lines 70-74.  int() raises ValueError on a malformed field; nothing catches
\* it there, and the program ends with a traceback.
Convert ==
    /\ pc = "convert"
    /\ txid' = signature.TXID
    /\ LET cr == int_16(signature.r)
           cs == int_16(signature.s)
           cz == int_16(signature.z)
           cn == int_16(signature.n)
       IN  /\ r' = IF cr.ok THEN cr.val ELSE r
           /\ s' = IF cr.ok /\ cs.ok THEN cs.val ELSE s
           /\ z' = IF cr.ok /\ cs.ok /\ cz.ok THEN cz.val ELSE z
           /\ n' = IF cr.ok /\ cs.ok /\ cz.ok /\ cn.ok THEN cn.val ELSE n
           /\ pc' = IF cr.ok /\ cs.ok /\ cz.ok /\ cn.ok THEN "print" ELSE "crashed"
    /\ UNCHANGED <<total, done, signature, valid_signature, call, stdout>>

\* Lines 76-81: the block printed for the record.  The Low-S? line shows the
\* record's own field (line 80); the other lines echo txid, r, s, z and n.
PrintRecord ==
    /\ pc = "print"
    /\ stdout' = Append(stdout, LowSLine(signature.LowS))
    /\ pc' = "call"
    /\ UNCHANGED <<total, done, signature, txid, r, s, z, n, valid_signature, call>>

\* Line 84: valid_signature = verify_signature(txid, r, s, z, n).
Call ==
    /\ pc = "call"
    /\ \E e \in verify_signature(txid, r, s, z, n) :
          /\ call' = e
          /\ valid_signature' = e.ret
          /\ stdout' = stdout \o e.out
    /\ pc' = "report"
    /\ UNCHANGED <<total, done, signature, txid, r, s, z, n>>

\* Lines 85-88.
Report ==
    /\ pc = "report"
    /\ stdout' = Append(stdout, IF valid_signature THEN ValidLine ELSE InvalidLine)
    /\ pc' = "separator"
    /\ UNCHANGED <<total, done, signature, txid, r, s, z, n, valid_signature, call>>

\* Line 90, then back to line 69.  The names bound in this iteration are dead
\* from here on (the next iteration binds each again before reading it), and
\* the model forgets their values.
Separator ==
    /\ pc = "separator"
    /\ stdout' = Append(stdout, SepLine)
    /\ pc' = "for"
    /\ signature' = NoRecord
    /\ txid' = <<>> /\ r' = 0 /\ s' = 0 /\ z' = 0 /\ n' = 0
    /\ valid_signature' = FALSE /\ call' = NoCall
    /\ UNCHANGED <<total, done>>

Next == ForNext \/ ForEnd \/ Convert \/ PrintRecord \/ Call \/ Report \/ Separator

Spec == Init /\ [][Next]_vars

TypeOK ==
    /\ pc \in {"for", "convert", "print", "call", "report", "separator", "exit", "crashed"}
    /\ total \in 0..MaxRecords /\ done \in 0..total
    /\ valid_signature \in BOOLEAN

-----------------------------------------------------------------------------
(* The claims.                                                             *)

Last(q) == q[Len(q)]
InRangeRS == 0 < r /\ r < order /\ 0 < s /\ s < order
Returned == pc = "report"

\* C1: a call with r or s outside (0, order) returns false from the range
\* check of line 19: line 23 (decoding the identifier) and line 24 (verify)
\* are not reached.
C1_RangeRejects ==
    Returned /\ ~InRangeRS =>
        /\ valid_signature = FALSE
        /\ call.steps = <<"range check">>
        /\ call.lib = "none"

\* C1 witness: r equal to the order, with an identifier that would not decode.
C1_Witness ==
    /\ Returned /\ r = order /\ 0 < s /\ s < order
    /\ ~fromhex(txid).ok /\ call.steps = <<"range check">>

\* (r0, s0) is what a reference signer gives for digest hash under some
\* private key d and nonce k.
IsReferenceSignature(r0, s0, hash) ==
    /\ r0 # 0 /\ s0 # 0
    /\ \E d \in 1..(order - 1), k \in 1..(order - 1) : Sign(d, k, hash) = <<r0, s0>>

\* C2 (as claimed): a signature made by a reference signer for the digest z,
\* in a record whose identifier decodes, is reported valid.
C2_ReferenceSignatureValid ==
    Returned /\ IsReferenceSignature(r, s, z) /\ fromhex(txid).ok => valid_signature = TRUE

\* C3 (as claimed): the low-S flag printed for a record is true exactly when
\* the record's s is at most half the record's n.
C3_LowSFlagComputed ==
    pc = "call" => Last(stdout) = LowSLine(isLowS(s, n))

\* The records for which lines 85-88 printed a result.
Reports(out) == Cardinality({i \in 1..Len(out) : out[i] \in {ValidLine, InvalidLine}})

\* C4 (as claimed): when the program ends, every record of the list has been
\* processed and has its result, whatever the records were.
C4_BatchCompletes ==
    pc \in {"exit", "crashed"} => Reports(stdout) = total

\* C5 (as claimed): when verify_signature decodes an identifier that is not
\* valid hex of even length, what it returns is not the plain result of an
\* invalid signature.
C5_DecodeErrorOutcome ==
    Returned /\ ~fromhex(txid).ok /\ call.steps # <<"range check">> =>
        valid_signature # OnBadSignature(<<>>).ret

\* C6 (as claimed): the value returned after an unexpected exception differs
\* from the value returned for a signature that fails verification.
C6_ErrorsDistinct ==
    Returned /\ Last(call.steps) = "except Exception" =>
        /\ valid_signature # OnBadSignature(<<>>).ret
        /\ valid_signature # OnVerify(<<>>, "False").ret

C8_NoEffect ==
    [][pc = "call" => stdout' = stdout /\ UNCHANGED <<total, done, signature, txid, r, s, z, n>>]_vars

\* C8 (amended): verify_signature changes nothing outside the call, and prints
\* nothing except in the handler of lines 28-30, which prints one line.
C8_OnlyHandlerPrints ==
    [][pc = "call" =>
          /\ UNCHANGED <<total, done, signature, txid, r, s, z, n>>
          /\ \/ stdout' = stdout
             \/ /\ Last(call'.steps) = "except Exception"
                /\ stdout' = Append(stdout, ErrLine)]_vars

\* C8 witness: a call that ended in the handler of lines 28-30.
C8_Witness ==
    Returned /\ Last(call.steps) = "except Exception" /\ Last(stdout) = ErrLine

\* C9: for the record's n and every x with 0 < x < n, exactly one of x and
\* n - x is low-S, except at 2x = n, where both are.
C9_ExactlyOneLowS ==
    pc = "print" =>
        \A x \in 1..(n - 1) :
            IF 2 * x = n
            THEN isLowS(x, n) /\ isLowS(n - x, n)
            ELSE isLowS(x, n) # isLowS(n - x, n)

\* C9 witness: a record whose s is high and whose n - s is low.
C9_Witness ==
    pc = "print" /\ 0 < s /\ s < n /\ ~isLowS(s, n) /\ isLowS(n - s, n)

\* The values verify_signature can return.
ReturnValues(txid_, r_, s_, z_, n_) == {e.ret : e \in verify_signature(txid_, r_, s_, z_, n_)}

\* C10: the result does not depend on the n argument: with txid, r, s and z
\* fixed, every other n gives the same possible return values, and the value
\* returned is one of them.
C10_IndependentOfN ==
    Returned =>
        \A n2 \in 0..(2 * order) :
            /\ ReturnValues(txid, r, s, z, n2) = ReturnValues(txid, r, s, z, n)
            /\ valid_signature \in ReturnValues(txid, r, s, z, n2)

\* C10 witness: a record whose s is not below its n, and which passed the
\* range check and reached verify.
C10_Witness ==
    Returned /\ n < order /\ s >= n /\ call.lib # "none"

=============================================================================
